---------------------------- MODULE Spec2Model ----------------------------
(***************************************************************************)
(* Model of src/main.py of the SFTP MCP server: the gitignore-style        *)
(* pattern matcher (GitIgnoreMatcher) and the tool handlers that talk to    *)
(* the remote side (sync_directory, upload_file, execute_remote_command).   *)
(*                                                                         *)
(* Strings are sequences of one-character strings, so that prefix tests,   *)
(* splitting and glob matching are computed as the code computes them.      *)
(***************************************************************************)
EXTENDS Integers, Sequences, FiniteSets, TLC

VARIABLES
    mPc,        \* position of the matcher harness: "off", "call" or "done"
    mPatterns,  \* raw pattern list handed to is_ignored
    mPath,      \* path handed to is_ignored
    mIsDir,     \* is_dir flag handed to is_ignored
    mResult,    \* value returned by is_ignored
    config,     \* module globals read from the environment (lines 33-45)
    rdirs,      \* remote side: the directories that exist (absolute paths)
    rfiles,     \* remote side: absolute file path -> NONE or [size, mtime, digest]
    readonly,   \* remote side: file paths a put is refused on
    clock,      \* remote side: the time a written file is stamped with
    pc,         \* per invocation slot: position in the running handler
    loc,        \* per invocation slot: the handler's parameters and locals
    session,    \* per invocation slot: "none", "open" or "closed" (ssh_client/sftp)
    results,    \* per invocation slot: sync_directory's `results` accumulator
    ret,        \* per invocation slot: the value the handler returned
    oplog,      \* per invocation slot: remote operations issued by the invocation
    prev        \* per invocation slot: parameters and result of the invocation before

mvars == <<mPc, mPatterns, mPath, mIsDir, mResult>>
rvars == <<rdirs, rfiles, readonly, clock>>
pvars == <<pc, loc, session, results, ret, oplog, prev>>

NONE == "None"

(***************************************************************************)
(* String primitives (Python str methods used by the code).                *)
(***************************************************************************)

\* str.startswith
StartsWith(s, p) ==
    /\ Len(p) <= Len(s)
    /\ SubSeq(s, 1, Len(p)) = p

\* str.endswith
EndsWith(s, p) ==
    /\ Len(p) <= Len(s)
    /\ SubSeq(s, Len(s) - Len(p) + 1, Len(s)) = p

\* `sub in s` for strings
Contains(s, sub) ==
    \E i \in 1..(Len(s) - Len(sub) + 1) : SubSeq(s, i, i + Len(sub) - 1) = sub

\* index of the first occurrence of sep in s, 0 when there is none (str.find + 1)
Find(s, sep) ==
    LET hits == {i \in 1..(Len(s) - Len(sep) + 1) : SubSeq(s, i, i + Len(sep) - 1) = sep}
    IN  IF hits = {} THEN 0 ELSE CHOOSE i \in hits : \A j \in hits : i <= j

\* str.split(sep): the pieces between non-overlapping occurrences, left to right
RECURSIVE Split(_, _)
Split(s, sep) ==
    LET i == Find(s, sep)
    IN  IF i = 0 THEN <<s>>
        ELSE <<SubSeq(s, 1, i - 1)>> \o Split(SubSeq(s, i + Len(sep), Len(s)), sep)

\* str.replace('\\', '/')
ReplaceBackslash(s) == [i \in 1..Len(s) |-> IF s[i] = "\\" THEN "/" ELSE s[i]]

\* str.strip() over the whitespace of the model's alphabet (the blank)
RECURSIVE LStrip(_)
LStrip(s) == IF s # <<>> /\ Head(s) = " " THEN LStrip(Tail(s)) ELSE s

RECURSIVE RStrip(_)
RStrip(s) ==
    IF s # <<>> /\ s[Len(s)] = " " THEN RStrip(SubSeq(s, 1, Len(s) - 1)) ELSE s

Strip(s) == RStrip(LStrip(s))

\* os.path.basename: what follows the last '/'
Basename(s) ==
    LET slashes == {i \in 1..Len(s) : s[i] = "/"}
    IN  IF slashes = {} THEN s
        ELSE SubSeq(s, (CHOOSE i \in slashes : \A j \in slashes : j <= i) + 1, Len(s))

\* fnmatch.fnmatch on POSIX (normcase is the identity): '*' is any run of
\* characters ('/' included), '?' is any one character, every other character
\* of the model's alphabet is itself; the match is anchored at both ends.
RECURSIVE FnMatch(_, _)
FnMatch(name, pat) ==
    IF pat = <<>> THEN name = <<>>
    ELSE IF Head(pat) = "*"
         THEN \/ FnMatch(name, Tail(pat))
              \/ (name # <<>> /\ FnMatch(Tail(name), pat))
    ELSE IF Head(pat) = "?"
         THEN name # <<>> /\ FnMatch(Tail(name), Tail(pat))
    ELSE name # <<>> /\ Head(name) = Head(pat) /\ FnMatch(Tail(name), Tail(pat))

(***************************************************************************)
(* GitIgnoreMatcher                                                        *)
(***************************************************************************)

\* GitIgnoreMatcher._parse_pattern
ParsePattern(original) ==
    LET negation == StartsWith(original, <<"!">>)
        p1       == IF negation THEN Tail(original) ELSE original
        dir_only == EndsWith(p1, <<"/">>)
        p2       == IF dir_only THEN SubSeq(p1, 1, Len(p1) - 1) ELSE p1
        anchored == StartsWith(p2, <<"/">>)
        p3       == IF anchored THEN Tail(p2) ELSE p2
        p4       == IF EndsWith(p3, <<"*", "*">>)
                    THEN SubSeq(p3, 1, Len(p3) - 2) \o <<"*">>
                    ELSE p3
    IN  [pattern |-> p4, negation |-> negation, dir_only |-> dir_only,
         anchored |-> anchored, original |-> original]

\* GitIgnoreMatcher.__init__: strip, drop blanks and comments, parse the rest
RECURSIVE Compile(_)
Compile(patterns) ==
    IF patterns = <<>> THEN <<>>
    ELSE LET pattern == Strip(Head(patterns))
         IN  IF pattern = <<>> \/ StartsWith(pattern, <<"#">>)
             THEN Compile(Tail(patterns))
             ELSE <<ParsePattern(pattern)>> \o Compile(Tail(patterns))

\* the body of match's loop up to `if matched:` -- whether one rule matches
\* the (already normalised) path
RuleMatches(rule, path, is_dir) ==
    /\ ~(rule.dir_only /\ ~is_dir)
    /\ (rule.anchored => StartsWith(path, rule.pattern))
    /\ IF rule.pattern = <<>> THEN TRUE
       ELSE IF Contains(rule.pattern, <<"*", "*">>)
            THEN LET parts == Split(rule.pattern, <<"*", "*">>)
                 IN  \A k \in 1..Len(parts) :
                        parts[k] # <<>> => Contains(path, parts[k])
       ELSE \/ FnMatch(path, rule.pattern)
            \/ FnMatch(Basename(path), rule.pattern)

\* match's loop over self.patterns, carrying the local `negated`: a matching
\* negated rule sets negated, a matching plain rule returns True unless
\* negated is already set; falling off the end returns negated.
RECURSIVE MatchLoop(_, _, _, _)
MatchLoop(rules, path, is_dir, negated) ==
    IF rules = <<>> THEN negated
    ELSE IF RuleMatches(Head(rules), path, is_dir)
         THEN IF Head(rules).negation
              THEN MatchLoop(Tail(rules), path, is_dir, TRUE)
              ELSE IF ~negated THEN TRUE
                   ELSE MatchLoop(Tail(rules), path, is_dir, negated)
    ELSE MatchLoop(Tail(rules), path, is_dir, negated)

\* GitIgnoreMatcher.match
Match(rules, path, is_dir) == MatchLoop(rules, ReplaceBackslash(path), is_dir, FALSE)

\* is_ignored
IsIgnored(path, ignore_patterns, is_dir) == Match(Compile(ignore_patterns), path, is_dir)

(***************************************************************************)
(* The pattern semantics the matcher is documented to have: the verdict     *)
(* starts at "not excluded" and every matching rule, in order, overwrites   *)
(* it (plain rule: excluded, negated rule: not excluded).                   *)
(***************************************************************************)
RECURSIVE LastMatchWins(_, _, _, _)
LastMatchWins(rules, path, is_dir, excluded) ==
    IF rules = <<>> THEN excluded
    ELSE LastMatchWins(Tail(rules), path, is_dir,
            IF RuleMatches(Head(rules), path, is_dir)
            THEN ~Head(rules).negation
            ELSE excluded)

(***************************************************************************)
(* Inputs of the matcher harness.                                          *)
(***************************************************************************)
P_StarLog   == <<"*", ".", "l", "o", "g">>                      \* "*.log"
P_NotKeep   == <<"!", "k", "e", "e", "p", ".", "l", "o", "g">>  \* "!keep.log"
P_BuildDir  == <<"b", "u", "i", "l", "d", "/">>                 \* "build/"
P_AnchSrc   == <<"/", "s", "r", "c">>                           \* "/src"
P_DeepKeep  == <<"*", "*", "/", "k", "e", "e", "p", ".", "l", "o", "g">> \* "**/keep.log"
P_Comment   == <<"#", "x">>                                     \* "#x"
P_Padded    == <<" ", "*", ".", "l", "o", "g", " ">>            \* " *.log "
P_SrcAll    == <<"s", "r", "c", "/", "*", "*">>                 \* "src/**"

S_DebugLog  == <<"d", "e", "b", "u", "g", ".", "l", "o", "g">>  \* "debug.log"
S_KeepLog   == <<"k", "e", "e", "p", ".", "l", "o", "g">>       \* "keep.log"
S_Build     == <<"b", "u", "i", "l", "d">>                      \* "build"
S_SrcKeep   == <<"s", "r", "c", "/", "k", "e", "e", "p", ".", "l", "o", "g">> \* "src/keep.log"
S_WinKeep   == <<"s", "r", "c", "\\", "k", "e", "e", "p", ".", "l", "o", "g">> \* "src\\keep.log"
S_Readme    == <<"R", "E", "A", "D">>                           \* "READ"

RawPatterns == {P_StarLog, P_NotKeep, P_BuildDir, P_AnchSrc, P_DeepKeep,
                P_Comment, P_Padded, P_SrcAll}

MatchPaths == {S_DebugLog, S_KeepLog, S_Build, S_SrcKeep, S_WinKeep, S_Readme}

\* longest pattern list handed to the matcher
MaxRules == 2

RECURSIVE SeqsUpTo(_, _)
SeqsUpTo(S, n) ==
    IF n = 0 THEN {<<>>}
    ELSE LET shorter == SeqsUpTo(S, n - 1)
         IN  shorter \cup {Append(q, x) : q \in shorter, x \in S}

MatchInputs ==
    /\ mPc = "call"
    /\ mPatterns \in SeqsUpTo(RawPatterns, MaxRules)
    /\ mPath \in MatchPaths
    /\ mIsDir \in BOOLEAN
    /\ mResult = NONE

\* one call of is_ignored(path, patterns, is_dir)
MatchCall ==
    /\ mPc = "call"
    /\ mResult' = IsIgnored(mPath, mPatterns, mIsDir)
    /\ mPc' = "done"
    /\ UNCHANGED <<mPatterns, mPath, mIsDir>>

(***************************************************************************)
(* Paths and the local tree.                                               *)
(*                                                                         *)
(* An optional string (a parameter that may be None) is a sequence of at   *)
(* most one string: <<>> is None, <<s>> is the string s.                   *)
(***************************************************************************)
None    == <<>>
Some(s) == <<s>>

\* truthiness of an optional string: None and "" are falsy
Truthy(o) == o # None /\ o[1] # <<>>

\* Python's `a or b` on optional strings
PyOr(a, b) == IF Truthy(a) THEN a ELSE b

\* os.path.join of two components (POSIX)
OsJoin(a, b) ==
    IF StartsWith(b, <<"/">>) THEN b
    ELSE IF a = <<>> \/ EndsWith(a, <<"/">>) THEN a \o b
    ELSE a \o <<"/">> \o b

RECURSIVE RStripSlash(_)
RStripSlash(s) ==
    IF s # <<>> /\ s[Len(s)] = "/" THEN RStripSlash(SubSeq(s, 1, Len(s) - 1)) ELSE s

\* os.path.dirname (POSIX)
Dirname(p) ==
    LET slashes == {i \in 1..Len(p) : p[i] = "/"}
        i       == IF slashes = {} THEN 0
                   ELSE CHOOSE k \in slashes : \A j \in slashes : j <= k
        head    == SubSeq(p, 1, i)
    IN  IF head # <<>> /\ (\E k \in 1..Len(head) : head[k] # "/")
        THEN RStripSlash(head) ELSE head

\* os.path.relpath(os.path.join(root, name), local_path), where relroot is
\* os.path.relpath(root, local_path): "." for the walk's top, else the
\* directory's path below it
RelPath(relroot, name) ==
    IF relroot = <<".">> THEN name ELSE OsJoin(relroot, name)

\* the non-empty parts of path.split('/') (the loops `continue` on empty ones)
RECURSIVE DropEmpty(_)
DropEmpty(parts) ==
    IF parts = <<>> THEN <<>>
    ELSE IF Head(parts) = <<>> THEN DropEmpty(Tail(parts))
    ELSE <<Head(parts)>> \o DropEmpty(Tail(parts))

PathParts(path) == DropEmpty(Split(path, <<"/">>))

P_Local   == <<"/", "w">>       \* a local directory that exists
P_Missing == <<"/", "n">>       \* a local path that does not exist
R_Abs     == <<"/", "r">>       \* an absolute remote root
R_Rel     == <<"r">>            \* a relative remote root
Home      == <<"/", "h">>       \* the directory the server resolves relative paths in
RootDir   == <<"/">>

N_a  == <<"a">>
N_bo == <<"b", ".", "o">>
N_t  == <<"t">>
N_x  == <<"x">>
F_tx == <<"t", "/", "x">>

\* the local tree under P_Local: relroot -> the names of its subdirectories
\* and of its files
LocalListing(relroot) ==
    IF relroot = <<".">> THEN [dirs |-> {N_t}, files |-> {N_a, N_bo}]
    ELSE IF relroot = N_t THEN [dirs |-> {}, files |-> {N_x}]
    ELSE [dirs |-> {}, files |-> {}]

\* the orders os.walk may list a set of names in: os.scandir's order is the
\* file system's and the code does not sort, so every order is possible
RECURSIVE ScanOrders(_)
ScanOrders(names) ==
    IF names = {} THEN {<<>>}
    ELSE UNION {{<<n>> \o q : q \in ScanOrders(names \ {n})} : n \in names}

\* every file of the local tree, relative to P_Local
LocalFiles == {N_a, N_bo, F_tx}

\* os.path.exists / os.path.isfile on the local side
LocalDirs         == {P_Local} \cup {OsJoin(P_Local, d) : d \in LocalListing(<<".">>).dirs}
LocalExists(path) == path \in LocalDirs \/ path \in {OsJoin(P_Local, f) : f \in LocalFiles}
IsFile(path)      == path \in {OsJoin(P_Local, f) : f \in LocalFiles}

\* os.stat of a local file, and the digest of its content (get_file_hash)
LocalStat(path) == [size |-> 1, mtime |-> 2, digest |-> "h1"]

\* load_gitignore_patterns: the local tree holds no .gitignore
LoadGitignorePatterns(local_path) == <<>>

(***************************************************************************)
(* The remote side (the SFTP server).                                      *)
(***************************************************************************)
\* latest time of the remote clock
MaxTime == 4
\* largest size of a remote file
MaxSize == 2

Times   == 0..MaxTime
Digests == {"h1", "h2"}

Absent == [present |-> FALSE]
FileRec(size, mtime, digest) ==
    [present |-> TRUE, size |-> size, mtime |-> mtime, digest |-> digest]

\* the server resolves a relative path in the login directory
Resolve(path) == IF StartsWith(path, <<"/">>) THEN path ELSE OsJoin(Home, path)

RemoteRoots     == {R_Abs, R_Rel}
RemoteFilePaths == {OsJoin(Resolve(r), f) : r \in RemoteRoots, f \in LocalFiles}

FilePresent(abs) == abs \in DOMAIN rfiles /\ rfiles[abs].present

\* sftp.stat: "dir" for a directory, the file's record for a file, Absent
\* (FileNotFoundError) otherwise
RemoteStat(path) ==
    LET abs == Resolve(path)
    IN  IF abs \in rdirs THEN [present |-> TRUE, size |-> 0, mtime |-> 0, digest |-> "dir"]
        ELSE IF FilePresent(abs) THEN rfiles[abs]
        ELSE Absent

\* sftp.mkdir: "ok", or the exception it raises
MkdirOutcome(path) ==
    LET abs == Resolve(path)
    IN  IF abs \in rdirs \/ FilePresent(abs) THEN "IOError"
        ELSE IF Dirname(abs) \notin rdirs THEN "FileNotFoundError"
        ELSE "ok"

\* sftp.put: "ok", or the exception it raises
PutOutcome(path) ==
    LET abs == Resolve(path)
    IN  IF abs \in rdirs THEN "IOError"
        ELSE IF Dirname(abs) \notin rdirs THEN "FileNotFoundError"
        ELSE IF abs \in readonly THEN "PermissionError"
        ELSE "ok"

\* the file a successful put leaves behind: the local content, stamped by the
\* server with its own clock (put copies no modification time)
PutFile(local_file) ==
    FileRec(LocalStat(local_file).size, clock, LocalStat(local_file).digest)

\* get_remote_file_info
GetRemoteFileInfo(path) ==
    LET st == RemoteStat(path)
    IN  IF st.present THEN Some([size |-> st.size, mtime |-> st.mtime]) ELSE None

Abs(n) == IF n < 0 THEN -n ELSE n

\* should_sync_file with the tolerance test off by one (>= for >)
ShouldSyncFileOffByOne(local_path, remote_info, check_hash) ==
    LET local_stat == LocalStat(local_path)
    IN  IF remote_info = None THEN [raised |-> FALSE, value |-> TRUE]
        ELSE IF local_stat.size # remote_info[1].size
             THEN [raised |-> FALSE, value |-> TRUE]
        ELSE IF Abs(local_stat.mtime - remote_info[1].mtime) >= 1
             THEN [raised |-> FALSE, value |-> TRUE]
        ELSE IF check_hash THEN [raised |-> TRUE, value |-> FALSE]
        ELSE [raised |-> FALSE, value |-> FALSE]

\* should_sync_file: [raised, value]; raised is the NameError of the call of
\* get_remote_file_hash, which the module does not define
ShouldSyncFile(local_path, remote_info, check_hash) ==
    LET local_stat == LocalStat(local_path)
    IN  IF remote_info = None THEN [raised |-> FALSE, value |-> TRUE]
        ELSE IF local_stat.size # remote_info[1].size
             THEN [raised |-> FALSE, value |-> TRUE]
        ELSE IF Abs(local_stat.mtime - remote_info[1].mtime) > 1
             THEN [raised |-> FALSE, value |-> TRUE]
        ELSE IF check_hash THEN [raised |-> TRUE, value |-> FALSE]
        ELSE [raised |-> FALSE, value |-> FALSE]

(***************************************************************************)
(* Invocations.  A slot runs one handler at a time, from its call to its   *)
(* return; every remote operation is one step.                             *)
(***************************************************************************)
Procs == {1, 2}

EmptyResults ==
    [uploaded_files |-> <<>>, skipped_files |-> <<>>, created_directories |-> <<>>,
     ignored_items |-> <<>>, errors |-> <<>>]

NoRet == [kind |-> "none"]
ErrorRet(msg, cause) == [kind |-> "error", error |-> msg, cause |-> cause]

InitLoc ==
    [op |-> "none", local_path |-> None, remote_path |-> None,
     skip_unchanged |-> FALSE, check_hash |-> FALSE, all_patterns |-> <<>>,
     parts |-> <<>>, current_path |-> <<>>, todo |-> <<>>, relroot |-> <<>>,
     dirs |-> <<>>, files |-> <<>>, remote_info |-> None, command |-> "none"]

\* what a slot remembers of the invocation that has just returned: whether it
\* was a sync_directory call with skip_unchanged that returned its itemized
\* result with no entry in errors
Summary(p) ==
    IF pc[p] = "returned"
    THEN [kind |-> "call",
          clean |-> /\ loc[p].op = "sync"
                    /\ loc[p].skip_unchanged
                    /\ ret[p].kind = "results"
                    /\ ret[p].results.errors = <<>>]
    ELSE [kind |-> "none"]

LogEntry(op, path, res, info) == [op |-> op, path |-> path, res |-> res, info |-> info]

\* where the walk goes on after a step: the directories left at this level,
\* then its files, then the next level
NextPc(dirs, files) ==
    IF dirs # <<>> THEN "dirs" ELSE IF files # <<>> THEN "files" ELSE "walk"

\* original_dirs filtered by is_ignored(os.path.join(relroot, d), patterns, True)
RECURSIVE KeptDirs(_, _, _)
KeptDirs(relroot, names, patterns) ==
    IF names = <<>> THEN <<>>
    ELSE (IF IsIgnored(OsJoin(relroot, Head(names)), patterns, TRUE)
          THEN <<>> ELSE <<Head(names)>>)
         \o KeptDirs(relroot, Tail(names), patterns)

\* the entries appended to ignored_items for the directories filtered out
RECURSIVE IgnoredDirItems(_, _, _)
IgnoredDirItems(relroot, names, kept) ==
    IF names = <<>> THEN <<>>
    ELSE (IF \E k \in 1..Len(kept) : kept[k] = Head(names)
          THEN <<>> ELSE <<OsJoin(relroot, Head(names)) \o <<"/">>>>)
         \o IgnoredDirItems(relroot, Tail(names), kept)

\* the directories os.walk descends into from relroot
ChildRoots(relroot, kept) == [k \in 1..Len(kept) |-> RelPath(relroot, kept[k])]

\* the handler's `except Exception` clause: an error result; nothing is closed
Abort(p, msg, cause) ==
    /\ ret' = [ret EXCEPT ![p] = ErrorRet(msg, cause)]
    /\ pc' = [pc EXCEPT ![p] = "returned"]

\* the state every call starts from
Begin(p) ==
    /\ prev' = [prev EXCEPT ![p] = Summary(p)]
    /\ session' = [session EXCEPT ![p] = "none"]
    /\ results' = [results EXCEPT ![p] = EmptyResults]
    /\ oplog' = [oplog EXCEPT ![p] = <<>>]

LocalDirArgs  == {None, Some(<<>>), Some(P_Local), Some(P_Missing)}
RemoteDirArgs == {None, Some(<<>>), Some(R_Abs), Some(R_Rel)}

\* sync_directory, from the call to the try block (lines 234-245)
SyncCall(p, local_dir, remote_dir, skip_unchanged, check_hash) ==
    LET local_path  == PyOr(local_dir, config.LOCAL_PATH)
        remote_path == PyOr(remote_dir, config.REMOTE_PATH)
        called == [InitLoc EXCEPT !.op = "sync",
                                  !.local_path = local_path,
                                  !.remote_path = remote_path,
                                  !.skip_unchanged = skip_unchanged,
                                  !.check_hash = check_hash]
    IN  /\ Begin(p)
        /\ IF ~Truthy(local_path) \/ ~Truthy(remote_path)
           THEN /\ loc' = [loc EXCEPT ![p] = called]
                /\ ret' = [ret EXCEPT ![p] =
                       ErrorRet("Local and remote paths must be specified", "args")]
                /\ pc' = [pc EXCEPT ![p] = "returned"]
           ELSE IF ~LocalExists(local_path[1])
           THEN /\ loc' = [loc EXCEPT ![p] = called]
                /\ ret' = [ret EXCEPT ![p] =
                       ErrorRet("Local path does not exist", "args")]
                /\ pc' = [pc EXCEPT ![p] = "returned"]
           ELSE /\ loc' = [loc EXCEPT ![p] =
                       [called EXCEPT !.all_patterns =
                           config.IGNORE_PATTERNS \o LoadGitignorePatterns(local_path[1])]]
                /\ ret' = [ret EXCEPT ![p] = NoRet]
                /\ pc' = [pc EXCEPT ![p] = "connect"]
        /\ UNCHANGED <<mvars, config, rvars>>

\* a first call of sync_directory, with any parameters
SyncStart(p) ==
    /\ pc[p] = "idle"
    /\ \E local_dir \in LocalDirArgs, remote_dir \in RemoteDirArgs,
          skip_unchanged \in BOOLEAN, check_hash \in BOOLEAN :
        SyncCall(p, local_dir, remote_dir, skip_unchanged, check_hash)

\* sync_directory called again with the parameters of the call that has
\* just returned
SyncRerun(p) ==
    /\ pc[p] = "returned"
    /\ loc[p].op = "sync"
    /\ SyncCall(p, loc[p].local_path, loc[p].remote_path,
                loc[p].skip_unchanged, loc[p].check_hash)

UploadLocalArgs  == {OsJoin(P_Local, N_a), P_Local, P_Missing}
UploadRemoteArgs == {None, Some(OsJoin(R_Abs, N_a))}

\* upload_file, from the call to the try block (lines 338-353)
UploadStart(p) ==
    /\ pc[p] = "idle"
    /\ Begin(p)
    /\ \E local_file_path \in UploadLocalArgs, remote_arg \in UploadRemoteArgs :
        LET called == [InitLoc EXCEPT !.op = "upload",
                                      !.local_path = Some(local_file_path),
                                      !.remote_path = remote_arg]
            fail(msg) ==
                /\ loc' = [loc EXCEPT ![p] = called]
                /\ ret' = [ret EXCEPT ![p] = ErrorRet(msg, "args")]
                /\ pc' = [pc EXCEPT ![p] = "returned"]
            go(remote_file_path) ==
                /\ loc' = [loc EXCEPT ![p] =
                        [called EXCEPT !.remote_path = Some(remote_file_path)]]
                /\ ret' = [ret EXCEPT ![p] = NoRet]
                /\ pc' = [pc EXCEPT ![p] = "connect"]
        IN  IF ~LocalExists(local_file_path) THEN fail("Local file does not exist")
            ELSE IF ~IsFile(local_file_path) THEN fail("Path is not a file")
            ELSE IF remote_arg # None THEN go(remote_arg[1])
            ELSE IF Truthy(config.LOCAL_PATH) /\ Truthy(config.REMOTE_PATH)
                 THEN IF StartsWith(local_file_path, config.LOCAL_PATH[1])
                      THEN go(ReplaceBackslash(OsJoin(config.REMOTE_PATH[1],
                                SubSeq(local_file_path,
                                       Len(config.LOCAL_PATH[1]) + 2,
                                       Len(local_file_path)))))
                      ELSE fail("Cannot determine remote path")
            ELSE fail("Remote path not specified")
    /\ UNCHANGED <<mvars, config, rvars>>

\* the shell commands handed to execute_remote_command: one that leaves the
\* tracked tree alone, `touch /r/a` and `rm -r /r`
ExecCommands == {"true", "touch", "rm"}

\* execute_remote_command, the call (line 447)
ExecStart(p) ==
    /\ pc[p] = "idle"
    /\ Begin(p)
    /\ \E command \in ExecCommands :
          loc' = [loc EXCEPT ![p] = [InitLoc EXCEPT !.op = "exec",
                                                    !.command = command]]
    /\ ret' = [ret EXCEPT ![p] = NoRet]
    /\ pc' = [pc EXCEPT ![p] = "connect"]
    /\ UNCHANGED <<mvars, config, rvars>>

RemotePathArgs == {OsJoin(R_Abs, N_a), R_Abs}

\* read_remote_file, the call (line 406)
ReadStart(p) ==
    /\ pc[p] = "idle"
    /\ Begin(p)
    /\ \E remote_file_path \in RemotePathArgs :
          loc' = [loc EXCEPT ![p] = [InitLoc EXCEPT !.op = "read",
                                        !.remote_path = Some(remote_file_path)]]
    /\ ret' = [ret EXCEPT ![p] = NoRet]
    /\ pc' = [pc EXCEPT ![p] = "connect"]
    /\ UNCHANGED <<mvars, config, rvars>>

\* list_remote_directory, the call (line 488)
ListStart(p) ==
    /\ pc[p] = "idle"
    /\ Begin(p)
    /\ \E remote_dir_path \in RemotePathArgs :
          loc' = [loc EXCEPT ![p] = [InitLoc EXCEPT !.op = "list",
                                        !.remote_path = Some(remote_dir_path)]]
    /\ ret' = [ret EXCEPT ![p] = NoRet]
    /\ pc' = [pc EXCEPT ![p] = "connect"]
    /\ UNCHANGED <<mvars, config, rvars>>

\* the message of each handler's `except Exception` clause
FailMsg(op) ==
    IF op = "sync" THEN "Sync failed"
    ELSE IF op = "upload" THEN "Upload failed"
    ELSE IF op = "read" THEN "Failed to read remote file"
    ELSE IF op = "list" THEN "Failed to list directory"
    ELSE "Command execution failed"

\* the test of the connection parameters without the secret
CredentialsCompleteNoSecret(cfg) == cfg.host /\ cfg.username

\* get_ssh_client's test of the connection parameters (line 53)
CredentialsComplete(cfg) == cfg.host /\ cfg.username /\ cfg.password

\* get_ssh_client (lines 51-65): the test of the parameters and ssh.connect
GetSshClient(p) ==
    /\ pc[p] = "connect"
    /\ IF ~CredentialsComplete(config)
       THEN /\ Abort(p, FailMsg(loc[p].op), "ValueError")
            /\ UNCHANGED <<session, oplog>>
       ELSE \E reached \in BOOLEAN :
            IF ~reached
            THEN /\ Abort(p, FailMsg(loc[p].op), "SSHException")
                 /\ oplog' = [oplog EXCEPT ![p] =
                        Append(@, LogEntry("connect", <<>>, "fail", Absent))]
                 /\ UNCHANGED session
            ELSE /\ session' = [session EXCEPT ![p] = "open"]
                 /\ oplog' = [oplog EXCEPT ![p] =
                        Append(@, LogEntry("connect", <<>>, "ok", Absent))]
                 /\ pc' = [pc EXCEPT ![p] =
                        IF loc[p].op = "exec" THEN "exec" ELSE "sftp"]
                 /\ UNCHANGED ret
    /\ UNCHANGED <<mvars, config, rvars, loc, results, prev>>

\* ssh_client.open_sftp() and the handler's locals up to its first remote
\* operation; when it raises, the handler returns from its except clause
\* with the client connected
OpenSftp(p) ==
    /\ pc[p] = "sftp"
    /\ \E opened \in BOOLEAN :
        IF ~opened
        THEN /\ Abort(p, FailMsg(loc[p].op), "SSHException")
             /\ UNCHANGED loc
        ELSE LET parts == IF loc[p].op = "sync"
                          THEN PathParts(loc[p].remote_path[1])
                          ELSE IF loc[p].op = "upload"
                          THEN PathParts(Dirname(loc[p].remote_path[1]))
                          ELSE <<>>
             IN  /\ loc' = [loc EXCEPT ![p].parts = parts,
                                       ![p].current_path = <<>>,
                                       ![p].todo = <<<<".">>>>]
                 /\ pc' = [pc EXCEPT ![p] =
                        IF loc[p].op = "read" THEN "read_open"
                        ELSE IF loc[p].op = "list" THEN "list"
                        ELSE IF loc[p].op = "upload"
                             THEN (IF parts = <<>> THEN "up_put" ELSE "up_prep")
                        ELSE (IF parts = <<>> THEN "walk" ELSE "prep")]
                 /\ UNCHANGED ret
    /\ UNCHANGED <<mvars, config, rvars, session, results, oplog, prev>>

\* sync_directory, root preparation: current_path += '/' + part and the stat
\* of it (lines 261-266)
PrepStat(p) ==
    /\ pc[p] = "prep"
    /\ LET current_path == loc[p].current_path \o <<"/">> \o Head(loc[p].parts)
           st == RemoteStat(current_path)
           rest == Tail(loc[p].parts)
       IN  /\ oplog' = [oplog EXCEPT ![p] = Append(@,
                  LogEntry("stat", current_path,
                           IF st.present THEN "found" ELSE "absent", st))]
           /\ loc' = [loc EXCEPT ![p].current_path = current_path,
                                 ![p].parts = rest]
           /\ pc' = [pc EXCEPT ![p] =
                  IF ~st.present THEN "prep_mkdir"
                  ELSE IF rest = <<>> THEN "walk" ELSE "prep"]
    /\ UNCHANGED <<mvars, config, rvars, session, results, ret, prev>>

\* sync_directory, root preparation: the mkdir in the except clause and the
\* record of it (lines 267-269)
PrepMkdir(p) ==
    /\ pc[p] = "prep_mkdir"
    /\ LET current_path == loc[p].current_path
           out == MkdirOutcome(current_path)
       IN  /\ oplog' = [oplog EXCEPT ![p] = Append(@,
                  LogEntry("mkdir", current_path, out, Absent))]
           /\ IF out = "ok"
              THEN /\ rdirs' = rdirs \cup {Resolve(current_path)}
                   /\ results' = [results EXCEPT ![p].created_directories =
                          Append(@, current_path)]
                   /\ pc' = [pc EXCEPT ![p] =
                          IF loc[p].parts = <<>> THEN "walk" ELSE "prep"]
                   /\ UNCHANGED ret
              ELSE /\ Abort(p, FailMsg("sync"), out)
                   /\ UNCHANGED <<rdirs, results>>
    /\ UNCHANGED <<mvars, config, rfiles, readonly, clock, loc, session, prev>>

\* sync_directory, one level of os.walk: the directory filter and the
\* ignored directories' entries (lines 272-280)
WalkEnter(p) ==
    /\ pc[p] = "walk"
    /\ loc[p].todo # <<>>
    /\ LET relroot == Head(loc[p].todo)
           listing == LocalListing(relroot)
       IN  \E original_dirs \in ScanOrders(listing.dirs),
              files \in ScanOrders(listing.files) :
           LET dirs == KeptDirs(relroot, original_dirs, loc[p].all_patterns)
           IN  /\ results' = [results EXCEPT ![p].ignored_items =
                      @ \o IgnoredDirItems(relroot, original_dirs, dirs)]
               /\ loc' = [loc EXCEPT ![p].relroot = relroot,
                                     ![p].dirs = dirs,
                                     ![p].files = files,
                                     ![p].todo = ChildRoots(relroot, dirs)
                                                    \o Tail(loc[p].todo)]
               /\ oplog' = [oplog EXCEPT ![p] = Append(@,
                      LogEntry("walk", relroot, "ok", Absent))]
               /\ pc' = [pc EXCEPT ![p] = NextPc(dirs, files)]
    /\ UNCHANGED <<mvars, config, rvars, session, ret, prev>>

\* the remote path of an entry of the walk (lines 284-285 and 294-300)
RemotePathOf(p, name) ==
    ReplaceBackslash(OsJoin(loc[p].remote_path[1], RelPath(loc[p].relroot, name)))

\* sync_directory, a surviving subdirectory: the stat (lines 283-287)
DirStat(p) ==
    /\ pc[p] = "dirs"
    /\ LET remote_dir_path == RemotePathOf(p, Head(loc[p].dirs))
           st == RemoteStat(remote_dir_path)
           rest == Tail(loc[p].dirs)
       IN  /\ oplog' = [oplog EXCEPT ![p] = Append(@,
                  LogEntry("stat", remote_dir_path,
                           IF st.present THEN "found" ELSE "absent", st))]
           /\ IF st.present
              THEN /\ loc' = [loc EXCEPT ![p].dirs = rest]
                   /\ pc' = [pc EXCEPT ![p] = NextPc(rest, loc[p].files)]
              ELSE /\ pc' = [pc EXCEPT ![p] = "dir_mkdir"]
                   /\ UNCHANGED loc
    /\ UNCHANGED <<mvars, config, rvars, session, results, ret, prev>>

\* sync_directory, a surviving subdirectory: the mkdir in the except clause
\* and the record of it (lines 288-290)
DirMkdir(p) ==
    /\ pc[p] = "dir_mkdir"
    /\ LET remote_dir_path == RemotePathOf(p, Head(loc[p].dirs))
           out == MkdirOutcome(remote_dir_path)
           rest == Tail(loc[p].dirs)
       IN  /\ oplog' = [oplog EXCEPT ![p] = Append(@,
                  LogEntry("mkdir", remote_dir_path, out, Absent))]
           /\ IF out = "ok"
              THEN /\ rdirs' = rdirs \cup {Resolve(remote_dir_path)}
                   /\ results' = [results EXCEPT ![p].created_directories =
                          Append(@, remote_dir_path)]
                   /\ loc' = [loc EXCEPT ![p].dirs = rest]
                   /\ pc' = [pc EXCEPT ![p] = NextPc(rest, loc[p].files)]
                   /\ UNCHANGED ret
              ELSE /\ Abort(p, FailMsg("sync"), out)
                   /\ UNCHANGED <<rdirs, results, loc>>
    /\ UNCHANGED <<mvars, config, rfiles, readonly, clock, session, prev>>

\* the file step without the `continue` of the ignored branch: an ignored
\* file is recorded and then handled like any other
FileCheckNoContinue(p) ==
    /\ pc[p] = "files"
    /\ LET filename == Head(loc[p].files)
           relative_file_path == RelPath(loc[p].relroot, filename)
           remote_file_path == RemotePathOf(p, filename)
       IN  /\ results' = [results EXCEPT ![p].ignored_items =
                  IF IsIgnored(relative_file_path, loc[p].all_patterns, FALSE)
                  THEN Append(@, relative_file_path) ELSE @]
           /\ pc' = [pc EXCEPT ![p] = "transfer"]
           /\ IF loc[p].skip_unchanged
              THEN /\ loc' = [loc EXCEPT ![p].remote_info =
                          GetRemoteFileInfo(remote_file_path)]
                   /\ oplog' = [oplog EXCEPT ![p] = Append(@,
                          LogEntry("stat", remote_file_path,
                                   IF RemoteStat(remote_file_path).present
                                   THEN "found" ELSE "absent",
                                   RemoteStat(remote_file_path)))]
              ELSE /\ loc' = [loc EXCEPT ![p].remote_info = None]
                   /\ UNCHANGED oplog
    /\ UNCHANGED <<mvars, config, rvars, session, ret, prev>>

\* sync_directory, a file: the ignore test and, with skip_unchanged, the
\* remote stat (lines 293-306)
FileCheck(p) ==
    /\ pc[p] = "files"
    /\ LET filename == Head(loc[p].files)
           relative_file_path == RelPath(loc[p].relroot, filename)
           remote_file_path == RemotePathOf(p, filename)
           rest == Tail(loc[p].files)
       IN  IF IsIgnored(relative_file_path, loc[p].all_patterns, FALSE)
           THEN /\ results' = [results EXCEPT ![p].ignored_items =
                       Append(@, relative_file_path)]
                /\ loc' = [loc EXCEPT ![p].files = rest]
                /\ pc' = [pc EXCEPT ![p] = NextPc(<<>>, rest)]
                /\ UNCHANGED oplog
           ELSE IF loc[p].skip_unchanged
           THEN /\ loc' = [loc EXCEPT ![p].remote_info =
                       GetRemoteFileInfo(remote_file_path)]
                /\ oplog' = [oplog EXCEPT ![p] = Append(@,
                       LogEntry("stat", remote_file_path,
                                IF RemoteStat(remote_file_path).present
                                THEN "found" ELSE "absent",
                                RemoteStat(remote_file_path)))]
                /\ pc' = [pc EXCEPT ![p] = "transfer"]
                /\ UNCHANGED results
           ELSE /\ loc' = [loc EXCEPT ![p].remote_info = None]
                /\ pc' = [pc EXCEPT ![p] = "transfer"]
                /\ UNCHANGED <<results, oplog>>
    /\ UNCHANGED <<mvars, config, rvars, session, ret, prev>>

\* sync_directory, a file: the staleness decision, the put and the record of
\* the outcome (lines 308-315)
FileTransfer(p) ==
    /\ pc[p] = "transfer"
    /\ LET filename == Head(loc[p].files)
           relative_file_path == RelPath(loc[p].relroot, filename)
           local_file_path == OsJoin(loc[p].local_path[1], relative_file_path)
           remote_file_path == RemotePathOf(p, filename)
           rest == Tail(loc[p].files)
           decision == IF ~loc[p].skip_unchanged
                       THEN [raised |-> FALSE, value |-> TRUE]
                       ELSE ShouldSyncFile(local_file_path, loc[p].remote_info,
                                           loc[p].check_hash)
           out == PutOutcome(remote_file_path)
       IN  /\ loc' = [loc EXCEPT ![p].files = rest, ![p].remote_info = None]
           /\ pc' = [pc EXCEPT ![p] = NextPc(<<>>, rest)]
           /\ IF decision.raised
              THEN /\ results' = [results EXCEPT ![p].errors = Append(@,
                          [path |-> relative_file_path, message |-> "NameError"])]
                   /\ UNCHANGED <<rfiles, oplog>>
              ELSE IF ~decision.value
              THEN /\ results' = [results EXCEPT ![p].skipped_files =
                          Append(@, relative_file_path)]
                   /\ UNCHANGED <<rfiles, oplog>>
              ELSE /\ oplog' = [oplog EXCEPT ![p] = Append(@,
                          LogEntry("put", remote_file_path, out, Absent))]
                   /\ IF out = "ok"
                      THEN /\ rfiles' = [rfiles EXCEPT ![Resolve(remote_file_path)] =
                                  PutFile(local_file_path)]
                           /\ results' = [results EXCEPT ![p].uploaded_files =
                                  Append(@, relative_file_path)]
                      ELSE /\ results' = [results EXCEPT ![p].errors = Append(@,
                                  [path |-> relative_file_path, message |-> out])]
                           /\ UNCHANGED rfiles
    /\ UNCHANGED <<mvars, config, rdirs, readonly, clock, session, ret, prev>>

\* sync_directory, after the walk: both closes and the return (lines 317-320)
SyncClose(p) ==
    /\ pc[p] = "walk"
    /\ loc[p].todo = <<>>
    /\ session' = [session EXCEPT ![p] = "closed"]
    /\ ret' = [ret EXCEPT ![p] = [kind |-> "results", results |-> results[p]]]
    /\ pc' = [pc EXCEPT ![p] = "returned"]
    /\ UNCHANGED <<mvars, config, rvars, loc, results, oplog, prev>>

\* upload_file, the directory loop: current_path += '/' + part and the stat
\* of it (lines 363-368)
UpPrepStat(p) ==
    /\ pc[p] = "up_prep"
    /\ LET current_path == loc[p].current_path \o <<"/">> \o Head(loc[p].parts)
           st == RemoteStat(current_path)
           rest == Tail(loc[p].parts)
       IN  /\ oplog' = [oplog EXCEPT ![p] = Append(@,
                  LogEntry("stat", current_path,
                           IF st.present THEN "found" ELSE "absent", st))]
           /\ loc' = [loc EXCEPT ![p].current_path = current_path,
                                 ![p].parts = rest]
           /\ pc' = [pc EXCEPT ![p] =
                  IF ~st.present THEN "up_mkdir"
                  ELSE IF rest = <<>> THEN "up_put" ELSE "up_prep"]
    /\ UNCHANGED <<mvars, config, rvars, session, results, ret, prev>>

\* upload_file, the directory loop: the mkdir in the except clause
\* (lines 369-370)
UpPrepMkdir(p) ==
    /\ pc[p] = "up_mkdir"
    /\ LET current_path == loc[p].current_path
           out == MkdirOutcome(current_path)
       IN  /\ oplog' = [oplog EXCEPT ![p] = Append(@,
                  LogEntry("mkdir", current_path, out, Absent))]
           /\ IF out = "ok"
              THEN /\ rdirs' = rdirs \cup {Resolve(current_path)}
                   /\ pc' = [pc EXCEPT ![p] =
                          IF loc[p].parts = <<>> THEN "up_put" ELSE "up_prep"]
                   /\ UNCHANGED ret
              ELSE /\ Abort(p, FailMsg("upload"), out)
                   /\ UNCHANGED rdirs
    /\ UNCHANGED <<mvars, config, rfiles, readonly, clock, loc, session, results, prev>>

\* upload_file, the put (line 373)
UploadPut(p) ==
    /\ pc[p] = "up_put"
    /\ LET remote_file_path == loc[p].remote_path[1]
           out == PutOutcome(remote_file_path)
       IN  /\ oplog' = [oplog EXCEPT ![p] = Append(@,
                  LogEntry("put", remote_file_path, out, Absent))]
           /\ IF out = "ok"
              THEN /\ rfiles' = [rfiles EXCEPT ![Resolve(remote_file_path)] =
                          PutFile(loc[p].local_path[1])]
                   /\ pc' = [pc EXCEPT ![p] = "up_finish"]
                   /\ UNCHANGED ret
              ELSE /\ Abort(p, FailMsg("upload"), out)
                   /\ UNCHANGED rfiles
    /\ UNCHANGED <<mvars, config, rdirs, readonly, clock, loc, session, results, prev>>

\* upload_file, after the put: the sizes, both closes and the return
\* (lines 376-388)
UploadFinish(p) ==
    /\ pc[p] = "up_finish"
    /\ LET remote_file_path == loc[p].remote_path[1]
           st == RemoteStat(remote_file_path)
       IN  /\ oplog' = [oplog EXCEPT ![p] = Append(@,
                  LogEntry("stat", remote_file_path,
                           IF st.present THEN "found" ELSE "absent", st))]
           /\ IF st.present
              THEN /\ session' = [session EXCEPT ![p] = "closed"]
                   /\ ret' = [ret EXCEPT ![p] =
                          [kind |-> "success",
                           file_size |-> LocalStat(loc[p].local_path[1]).size,
                           uploaded_size |-> st.size]]
                   /\ pc' = [pc EXCEPT ![p] = "returned"]
              ELSE /\ Abort(p, FailMsg("upload"), "FileNotFoundError")
                   /\ UNCHANGED session
    /\ UNCHANGED <<mvars, config, rvars, loc, results, prev>>

\* execute_remote_command: exec_command (line 455), which raises when the
\* channel cannot be opened
ExecCommand(p) ==
    /\ pc[p] = "exec"
    /\ \E channel_ok \in BOOLEAN :
        /\ oplog' = [oplog EXCEPT ![p] = Append(@,
               LogEntry("exec", <<>>, IF channel_ok THEN "ok" ELSE "SSHException", Absent))]
        /\ IF channel_ok
           THEN /\ pc' = [pc EXCEPT ![p] = "exec_wait"]
                /\ UNCHANGED ret
           ELSE Abort(p, FailMsg("exec"), "SSHException")
    /\ UNCHANGED <<mvars, config, rvars, loc, session, results, prev>>

\* path is dir or lies below it
Below(path, dir) == path = dir \/ StartsWith(path, dir \o <<"/">>)

\* execute_remote_command: recv_exit_status (line 458) returns once the
\* command has run on the server; `touch /r/a` stamps or creates the file
\* when /r is there, `rm -r /r` removes the tree
ExecWait(p) ==
    /\ pc[p] = "exec_wait"
    /\ LET target == OsJoin(R_Abs, N_a)
       IN  IF loc[p].command = "touch" /\ R_Abs \in rdirs /\ target \notin readonly
           THEN /\ rfiles' = [rfiles EXCEPT ![target] =
                       IF @.present THEN [@ EXCEPT !.mtime = clock]
                       ELSE FileRec(0, clock, "h0")]
                /\ UNCHANGED rdirs
           ELSE IF loc[p].command = "rm"
           THEN /\ rdirs' = {d \in rdirs : ~Below(d, R_Abs)}
                /\ rfiles' = [f \in DOMAIN rfiles |->
                       IF Below(f, R_Abs) THEN Absent ELSE rfiles[f]]
           ELSE UNCHANGED <<rdirs, rfiles>>
    /\ pc' = [pc EXCEPT ![p] = "exec_read"]
    /\ UNCHANGED <<mvars, config, readonly, clock, loc, session, results, ret,
                   oplog, prev>>

\* execute_remote_command: the reads of stdout and stderr, which raise when
\* the channel fails, then the close and the return (lines 459-471)
ExecFinish(p) ==
    /\ pc[p] = "exec_read"
    /\ \E read_ok \in BOOLEAN :
        IF read_ok
        THEN /\ session' = [session EXCEPT ![p] = "closed"]
             /\ ret' = [ret EXCEPT ![p] = [kind |-> "success"]]
             /\ pc' = [pc EXCEPT ![p] = "returned"]
        ELSE /\ Abort(p, FailMsg("exec"), "SSHException")
             /\ UNCHANGED session
    /\ UNCHANGED <<mvars, config, rvars, loc, results, oplog, prev>>

\* the handler returns an error result from a named except clause
Fail(p, msg, cause) ==
    /\ ret' = [ret EXCEPT ![p] = ErrorRet(msg, cause)]
    /\ pc' = [pc EXCEPT ![p] = "returned"]

\* read_remote_file: sftp.open, the read and the decode (lines 410-411)
ReadOpen(p) ==
    /\ pc[p] = "read_open"
    /\ LET remote_file_path == loc[p].remote_path[1]
           st == RemoteStat(remote_file_path)
           out == IF ~st.present THEN "FileNotFoundError"
                  ELSE IF Resolve(remote_file_path) \in rdirs THEN "IOError"
                  ELSE "ok"
       IN  /\ oplog' = [oplog EXCEPT ![p] = Append(@,
                  LogEntry("open", remote_file_path, out, st))]
           /\ IF out = "FileNotFoundError"
              THEN Fail(p, "File not found on remote server", out)
              ELSE IF out = "IOError"
              THEN Abort(p, FailMsg("read"), out)
              ELSE \E decodable \in BOOLEAN :
                   IF decodable
                   THEN /\ pc' = [pc EXCEPT ![p] = "read_stat"]
                        /\ UNCHANGED ret
                   ELSE Fail(p, "Failed to decode file", "UnicodeDecodeError")
    /\ UNCHANGED <<mvars, config, rvars, loc, session, results, prev>>

\* read_remote_file: the stat, both closes and the return (lines 414-425)
ReadFinish(p) ==
    /\ pc[p] = "read_stat"
    /\ LET remote_file_path == loc[p].remote_path[1]
           st == RemoteStat(remote_file_path)
       IN  /\ oplog' = [oplog EXCEPT ![p] = Append(@,
                  LogEntry("stat", remote_file_path,
                           IF st.present THEN "found" ELSE "absent", st))]
           /\ IF st.present
              THEN /\ session' = [session EXCEPT ![p] = "closed"]
                   /\ ret' = [ret EXCEPT ![p] =
                          [kind |-> "success", file_size |-> st.size]]
                   /\ pc' = [pc EXCEPT ![p] = "returned"]
              ELSE /\ Fail(p, "File not found on remote server", "FileNotFoundError")
                   /\ UNCHANGED session
    /\ UNCHANGED <<mvars, config, rvars, loc, results, prev>>

\* the entries sftp.listdir_attr returns for a directory
ListedItems(abs) ==
    {d \in rdirs : d # abs /\ Dirname(d) = abs}
        \cup {f \in DOMAIN rfiles : rfiles[f].present /\ Dirname(f) = abs}

\* list_remote_directory: listdir_attr, both closes and the return
\* (lines 492-515)
ListDir(p) ==
    /\ pc[p] = "list"
    /\ LET remote_dir_path == loc[p].remote_path[1]
           abs == Resolve(remote_dir_path)
           out == IF abs \in rdirs THEN "ok"
                  ELSE IF FilePresent(abs) THEN "IOError"
                  ELSE "FileNotFoundError"
       IN  /\ oplog' = [oplog EXCEPT ![p] = Append(@,
                  LogEntry("listdir", remote_dir_path, out, Absent))]
           /\ IF out = "ok"
              THEN /\ session' = [session EXCEPT ![p] = "closed"]
                   /\ ret' = [ret EXCEPT ![p] =
                          [kind |-> "success",
                           total_items |-> Cardinality(ListedItems(abs))]]
                   /\ pc' = [pc EXCEPT ![p] = "returned"]
              ELSE /\ IF out = "FileNotFoundError"
                      THEN Fail(p, "Directory not found", out)
                      ELSE Abort(p, FailMsg("list"), out)
                   /\ UNCHANGED session
    /\ UNCHANGED <<mvars, config, rvars, loc, results, prev>>

\* the server's clock runs on, before, during and between the calls
Tick ==
    /\ clock < MaxTime
    /\ clock' = clock + 1
    /\ UNCHANGED <<mvars, config, rdirs, rfiles, readonly, pvars>>

(***************************************************************************)
(* Initial states.                                                         *)
(***************************************************************************)
I_DirT   == <<"t", "/">>                   \* "t/"
I_StarO  == <<"*", ".", "o">>              \* "*.o"
I_AnchT  == <<"/", "t", "/">>              \* "/t/", anchored at the root

PatternLists == {<<>>, <<I_DirT, I_StarO>>, <<I_AnchT>>}

\* the credentials are set or not one by one; the two default roots are set
\* together or not at all
Configs ==
    {[host |-> h, username |-> u, password |-> w,
      LOCAL_PATH |-> IF d THEN Some(P_Local) ELSE None,
      REMOTE_PATH |-> IF d THEN Some(R_Abs) ELSE None,
      IGNORE_PATTERNS |-> pl] :
        h \in BOOLEAN, u \in BOOLEAN, w \in BOOLEAN, d \in BOOLEAN,
        pl \in PatternLists}

\* remote trees: a set of directories closed under parents, and files only
\* in directories that exist
RemoteDirSets ==
    {{RootDir, Home} \cup D : D \in
        {{}, {R_Abs}, {R_Abs, OsJoin(R_Abs, N_t)},
         {Resolve(R_Rel)}, {R_Abs, Resolve(R_Rel)},
         {R_Abs, OsJoin(R_Abs, N_t), Resolve(R_Rel)}}}

FileRecs == {FileRec(s, t, d) : s \in 1..MaxSize, t \in Times, d \in Digests}

\* the initial remote files: none, or the files of the tree under R_Abs with
\* one record, all of them or all but the first
RemoteFileMaps(dirs) ==
    {[f \in RemoteFilePaths |-> Absent]} \cup
    (IF OsJoin(R_Abs, N_t) \in dirs
     THEN {[f \in RemoteFilePaths |->
               IF StartsWith(f, R_Abs) /\ f \notin gone THEN rec ELSE Absent] :
                   rec \in FileRecs, gone \in {{}, {OsJoin(R_Abs, N_a)}}}
     ELSE {})

ReadonlySets == {{}, {OsJoin(R_Abs, N_a)}}

NoMatcher ==
    /\ mPc = "off"
    /\ mPatterns = <<>>
    /\ mPath = <<>>
    /\ mIsDir = FALSE
    /\ mResult = NONE

SlotsIdle ==
    /\ pc = [p \in Procs |-> "idle"]
    /\ loc = [p \in Procs |-> InitLoc]
    /\ session = [p \in Procs |-> "none"]
    /\ results = [p \in Procs |-> EmptyResults]
    /\ ret = [p \in Procs |-> NoRet]
    /\ oplog = [p \in Procs |-> <<>>]
    /\ prev = [p \in Procs |-> [kind |-> "none"]]

\* with incomplete credentials no handler gets past get_ssh_client, and the
\* remote tree is left at its smallest
Init ==
    /\ NoMatcher
    /\ config \in Configs
    /\ IF CredentialsComplete(config)
       THEN /\ rdirs \in RemoteDirSets
            /\ rfiles \in RemoteFileMaps(rdirs)
            /\ readonly \in ReadonlySets
       ELSE /\ rdirs = {RootDir, Home}
            /\ rfiles = [f \in RemoteFilePaths |-> Absent]
            /\ readonly = {}
    /\ clock = LocalStat(P_Local).mtime
    /\ SlotsIdle

\* the matcher harness alone: nothing is configured, no slot runs
MatchInit ==
    /\ MatchInputs
    /\ config = [host |-> FALSE, username |-> FALSE, password |-> FALSE,
                 LOCAL_PATH |-> None, REMOTE_PATH |-> None, IGNORE_PATTERNS |-> <<>>]
    /\ rdirs = {RootDir, Home}
    /\ rfiles = [f \in RemoteFilePaths |-> Absent]
    /\ readonly = {}
    /\ clock = 0
    /\ SlotsIdle

MatchNext == MatchCall /\ UNCHANGED <<config, rvars, pvars>>

\* the steps of sync_directory
SyncStep(p) ==
    \/ SyncStart(p)
    \/ GetSshClient(p)
    \/ OpenSftp(p)
    \/ PrepStat(p)
    \/ PrepMkdir(p)
    \/ WalkEnter(p)
    \/ DirStat(p)
    \/ DirMkdir(p)
    \/ FileCheck(p)
    \/ FileTransfer(p)
    \/ SyncClose(p)

\* the steps of upload_file, read_remote_file, execute_remote_command and
\* list_remote_directory
ToolStep(p) ==
    \/ UploadStart(p)
    \/ UpPrepStat(p)
    \/ UpPrepMkdir(p)
    \/ UploadPut(p)
    \/ UploadFinish(p)
    \/ ReadStart(p)
    \/ ReadOpen(p)
    \/ ReadFinish(p)
    \/ ExecStart(p)
    \/ ExecCommand(p)
    \/ ExecWait(p)
    \/ ExecFinish(p)
    \/ ListStart(p)
    \/ ListDir(p)

vars == <<mvars, config, rvars, pvars>>

\* one client: a call in slot 1, and a sync_directory call may be repeated
Next == SyncStep(1) \/ SyncRerun(1) \/ ToolStep(1) \/ Tick

Spec == Init /\ [][Next]_vars

\* two clients against a remote tree with no file yet: each with one
\* sync_directory call, or the second with a remote command that runs while
\* the first one's sync_directory does
RaceInit ==
    /\ NoMatcher
    /\ config \in {c \in Configs : CredentialsComplete(c) /\ Truthy(c.LOCAL_PATH)
                                    /\ c.IGNORE_PATTERNS = <<>>}
    /\ rdirs \in {{RootDir, Home}, {RootDir, Home, R_Abs}}
    /\ rfiles = [f \in RemoteFilePaths |-> Absent]
    /\ readonly = {}
    /\ clock = LocalStat(P_Local).mtime
    /\ SlotsIdle

ExecStep(p) ==
    \/ ExecStart(p)
    \/ ExecCommand(p)
    \/ ExecWait(p)
    \/ ExecFinish(p)

RaceNext == (\E p \in Procs : SyncStep(p)) \/ ExecStep(2) \/ Tick

SpecRace == RaceInit /\ [][RaceNext]_vars

SpecMatch == MatchInit /\ [][MatchNext]_vars

(***************************************************************************)
(* Vocabulary of the properties.                                           *)
(***************************************************************************)
InSeq(x, s)  == \E i \in 1..Len(s) : s[i] = x
Count(x, s)  == Cardinality({i \in 1..Len(s) : s[i] = x})
ErrorPaths(errs) == [i \in 1..Len(errs) |-> errs[i].path]

\* slot p runs or has run sync_directory
SyncSlot(p) == loc[p].op = "sync"
\* sync_directory has returned its itemized result in slot p
SyncDone(p) == pc[p] = "returned" /\ SyncSlot(p) /\ ret[p].kind = "results"

\* the remote path sync_directory gives a path relative to the local root
RemoteOf(p, rel) == ReplaceBackslash(OsJoin(loc[p].remote_path[1], rel))

LogHas(p, op, path) ==
    \E i \in 1..Len(oplog[p]) : oplog[p][i].op = op /\ oplog[p][i].path = path
LogHasRes(p, op, path, res) ==
    \E i \in 1..Len(oplog[p]) :
        oplog[p][i].op = op /\ oplog[p][i].path = path /\ oplog[p][i].res = res

\* what the remote side held at path when the invocation stat'ed it
StatInfo(p, path) ==
    IF LogHas(p, "stat", path)
    THEN oplog[p][CHOOSE i \in 1..Len(oplog[p]) :
                     oplog[p][i].op = "stat" /\ oplog[p][i].path = path].info
    ELSE Absent

\* the directory levels the walk has entered, and the files found at a level
WalkedRoots(p) == {oplog[p][i].path : i \in {j \in 1..Len(oplog[p]) : oplog[p][j].op = "walk"}}
FilesAt(relroot) == {RelPath(relroot, f) : f \in LocalListing(relroot).files}
DirsAt(relroot) == LocalListing(relroot).dirs

\* the levels a walk under `patterns` reaches (the tree is two levels deep),
\* and the files it has to account for as not ignored
KeptChildren(relroot, patterns) ==
    {RelPath(relroot, d) : d \in {n \in DirsAt(relroot) :
        ~IsIgnored(OsJoin(relroot, n), patterns, TRUE)}}
ReachedRoots(patterns) ==
    LET l0 == {<<".">>}
        l1 == UNION {KeptChildren(r, patterns) : r \in l0}
        l2 == UNION {KeptChildren(r, patterns) : r \in l1}
    IN  l0 \cup l1 \cup l2
SyncableFiles(patterns) ==
    {f \in UNION {FilesAt(r) : r \in ReachedRoots(patterns)} :
        ~IsIgnored(f, patterns, FALSE)}

\* the remote copy seen by the stat is there, of the local size, and its
\* modification time is within one second of the local one
SameSizeAndTime(local_file, info) ==
    /\ info.present
    /\ info.size = LocalStat(local_file).size
    /\ Abs(LocalStat(local_file).mtime - info.mtime) <= 1

(***************************************************************************)
(* C1: for every ordered pattern list and every (path, isDirectory) pair,   *)
(* match returns the last-match-wins verdict: starting from excluded=false, *)
(* each matching plain rule sets excluded=true, each matching negated rule  *)
(* sets excluded=false, and the value after the last rule is the result.    *)
(***************************************************************************)
C1_LastMatchWins ==
    mPc = "done" =>
        mResult = LastMatchWins(Compile(mPatterns), ReplaceBackslash(mPath),
                                mIsDir, FALSE)

(***************************************************************************)
(* C2: when sync_directory with skip_unchanged=true (and the default        *)
(* check_hash=false) has just returned without errors and is run again      *)
(* against the same local tree and the remote tree it left, the result of   *)
(* the second run holds no uploaded file, no created directory and every    *)
(* non-ignored file in skipped_files.                                       *)
(***************************************************************************)
C2_RerunIsIdempotent ==
    \A p \in Procs :
        ( /\ pc[p] = "returned"
          /\ SyncSlot(p)
          /\ loc[p].skip_unchanged
          /\ ~loc[p].check_hash
          /\ prev[p].kind = "call"
          /\ prev[p].clean
          /\ ret[p].kind = "results" )
        => /\ ret[p].results.uploaded_files = <<>>
           /\ ret[p].results.created_directories = <<>>
           /\ \A f \in SyncableFiles(loc[p].all_patterns) :
                  InSeq(f, ret[p].results.skipped_files)

(***************************************************************************)
(* C3: when N non-ignored files need uploading and the put fails for        *)
(* exactly one of them, sync_directory returns its itemized result with     *)
(* exactly one entry in errors, for that file, and N-1 entries in           *)
(* uploaded_files.  A file needs uploading when skip_unchanged is off, or   *)
(* its remote copy is absent, of another size, more than a second apart,    *)
(* or (with check_hash) of another digest.                                  *)
(***************************************************************************)
NeedsUpload(p, f) ==
    LET info  == StatInfo(p, RemoteOf(p, f))
        local == OsJoin(loc[p].local_path[1], f)
    IN  \/ ~loc[p].skip_unchanged
        \/ ~SameSizeAndTime(local, info)
        \/ (loc[p].check_hash /\ info.digest # LocalStat(local).digest)

FailedPuts(p) ==
    {i \in 1..Len(oplog[p]) : oplog[p][i].op = "put" /\ oplog[p][i].res # "ok"}

C3_OneFailureOneError ==
    \A p \in Procs :
        (pc[p] = "returned" /\ SyncSlot(p) /\ Cardinality(FailedPuts(p)) = 1)
        => /\ ret[p].kind = "results"
           /\ LET failed == oplog[p][CHOOSE i \in FailedPuts(p) : TRUE].path
                  N == Cardinality({f \in SyncableFiles(loc[p].all_patterns) :
                                       NeedsUpload(p, f)})
              IN  /\ Len(ret[p].results.errors) = 1
                  /\ RemoteOf(p, ret[p].results.errors[1].path) = failed
                  /\ Len(ret[p].results.uploaded_files) = N - 1

(***************************************************************************)
(* C4: with skip_unchanged and check_hash, a non-ignored file whose remote  *)
(* copy exists with equal size and a modification time at most one second   *)
(* apart is decided by the digests: put and recorded in uploaded_files when *)
(* they differ, recorded in skipped_files when they are equal.              *)
(***************************************************************************)
C4_HashDecides ==
    \A p \in Procs :
        (SyncDone(p) /\ loc[p].skip_unchanged /\ loc[p].check_hash)
        => \A f \in SyncableFiles(loc[p].all_patterns) :
            LET info  == StatInfo(p, RemoteOf(p, f))
                local == OsJoin(loc[p].local_path[1], f)
            IN  SameSizeAndTime(local, info)
                => IF info.digest # LocalStat(local).digest
                   THEN /\ LogHas(p, "put", RemoteOf(p, f))
                        /\ LogHasRes(p, "put", RemoteOf(p, f), "ok")
                              => InSeq(f, ret[p].results.uploaded_files)
                   ELSE InSeq(f, ret[p].results.skipped_files)

(***************************************************************************)
(* C5: with check_hash=false, should_sync_file is true exactly when the     *)
(* remote copy is absent, of another size, or more than 1.0 second apart in *)
(* modification time; in sync_directory a file with a remote copy of equal  *)
(* size and at most 1.0 second apart is recorded in skipped_files and not   *)
(* put, and every other non-ignored file is put.                            *)
(***************************************************************************)
C5_SizeThenMtime ==
    /\ \A rec \in FileRecs :
          ShouldSyncFile(OsJoin(P_Local, N_a),
                         Some([size |-> rec.size, mtime |-> rec.mtime]), FALSE)
            = [raised |-> FALSE,
               value |-> ~SameSizeAndTime(OsJoin(P_Local, N_a), rec)]
    /\ ShouldSyncFile(OsJoin(P_Local, N_a), None, FALSE)
            = [raised |-> FALSE, value |-> TRUE]
    /\ \A p \in Procs :
        (SyncDone(p) /\ loc[p].skip_unchanged /\ ~loc[p].check_hash)
        => \A f \in SyncableFiles(loc[p].all_patterns) :
            LET info  == StatInfo(p, RemoteOf(p, f))
                local == OsJoin(loc[p].local_path[1], f)
            IN  IF SameSizeAndTime(local, info)
                THEN /\ InSeq(f, ret[p].results.skipped_files)
                     /\ ~InSeq(f, ret[p].results.uploaded_files)
                     /\ ~LogHas(p, "put", RemoteOf(p, f))
                ELSE /\ LogHas(p, "put", RemoteOf(p, f))
                     /\ ~InSeq(f, ret[p].results.skipped_files)
                     /\ LogHasRes(p, "put", RemoteOf(p, f), "ok")
                           => InSeq(f, ret[p].results.uploaded_files)

\* a run in which one file was put because its remote copy was absent and
\* another was skipped with the modification times exactly one second apart
C5_Witness ==
    \E p \in Procs :
        /\ SyncDone(p) /\ loc[p].skip_unchanged /\ ~loc[p].check_hash
        /\ \E f \in SyncableFiles(loc[p].all_patterns) :
              /\ ~StatInfo(p, RemoteOf(p, f)).present
              /\ InSeq(f, ret[p].results.uploaded_files)
        /\ \E f \in SyncableFiles(loc[p].all_patterns) :
              LET info == StatInfo(p, RemoteOf(p, f))
              IN  /\ info.present
                  /\ info.size = LocalStat(f).size
                  /\ Abs(LocalStat(f).mtime - info.mtime) = 1
                  /\ InSeq(f, ret[p].results.skipped_files)

(***************************************************************************)
(* C6: when two sync_directory invocations overlap on the same remote tree  *)
(* and both find a remote directory absent, the one whose mkdir comes       *)
(* second and meets "already exists" does not fail: it returns its itemized *)
(* result.                                                                  *)
(***************************************************************************)
LostMkdirRace(p) ==
    \E i \in 1..Len(oplog[p]) :
        /\ oplog[p][i].op = "mkdir"
        /\ oplog[p][i].res = "IOError"
        /\ LogHasRes(p, "stat", oplog[p][i].path, "absent")
        /\ \E q \in Procs \ {p} : \E j \in 1..Len(oplog[q]) :
              /\ oplog[q][j].op = "mkdir"
              /\ oplog[q][j].res = "ok"
              /\ Resolve(oplog[q][j].path) = Resolve(oplog[p][i].path)
              /\ LogHasRes(q, "stat", oplog[q][j].path, "absent")

C6_MkdirRaceTolerated ==
    \A p \in Procs :
        (pc[p] = "returned" /\ SyncSlot(p) /\ LostMkdirRace(p))
        => ret[p].kind = "results"

(***************************************************************************)
(* C7: whenever sync_directory, upload_file or execute_remote_command has   *)
(* returned, with a success result or an error result, the session the     *)
(* call opened is closed.                                                   *)
(***************************************************************************)
C7_SessionReleased ==
    \A p \in Procs :
        (pc[p] = "returned" /\ loc[p].op \in {"sync", "upload", "exec"})
        => session[p] # "open"

(***************************************************************************)
(* C8: in the sync_directory walk a subdirectory whose path relative to    *)
(* the root matches the ignore set (as a directory) is never descended     *)
(* into: nothing at or below it is walked, stat'ed, created or put, and it  *)
(* is recorded exactly once in ignored_items, with a trailing separator; a  *)
(* file that matches the ignore set causes no remote stat and no put and is *)
(* recorded in ignored_items.                                               *)
(***************************************************************************)
C8_IgnoredNeverVisited ==
    \A p \in Procs : SyncSlot(p) =>
        \A r \in WalkedRoots(p) :
            /\ \A d \in DirsAt(r) :
                  IsIgnored(RelPath(r, d), loc[p].all_patterns, TRUE)
                  => /\ Count(OsJoin(r, d) \o <<"/">>, results[p].ignored_items) = 1
                     /\ \A i \in 1..Len(oplog[p]) :
                           /\ oplog[p][i].op = "walk"
                                 => ~Below(oplog[p][i].path, RelPath(r, d))
                           /\ oplog[p][i].op \in {"stat", "mkdir", "put"}
                                 => ~Below(oplog[p][i].path, RemoteOf(p, RelPath(r, d)))
            /\ \A f \in FilesAt(r) :
                  IsIgnored(f, loc[p].all_patterns, FALSE)
                  => /\ ~LogHas(p, "stat", RemoteOf(p, f))
                     /\ ~LogHas(p, "put", RemoteOf(p, f))
                     /\ SyncDone(p) => Count(f, ret[p].results.ignored_items) = 1

\* a finished walk that met an ignored directory holding a file, and an
\* ignored file
C8_Witness ==
    \E p \in Procs :
        /\ SyncDone(p)
        /\ IsIgnored(OsJoin(<<".">>, N_t), loc[p].all_patterns, TRUE)
        /\ InSeq(<<".", "/", "t", "/">>, ret[p].results.ignored_items)
        /\ IsIgnored(N_bo, loc[p].all_patterns, FALSE)
        /\ InSeq(N_bo, ret[p].results.ignored_items)
        /\ Len(ret[p].results.uploaded_files) > 0

(***************************************************************************)
(* C9: when the local root or the remote root is empty or unset, when the   *)
(* local root does not exist, or when host, username or secret is missing,  *)
(* sync_directory returns an error result, opens no connection and issues   *)
(* no remote stat, mkdir or put.                                            *)
(***************************************************************************)
PreconditionsFail(p) ==
    \/ ~Truthy(loc[p].local_path)
    \/ ~Truthy(loc[p].remote_path)
    \/ loc[p].local_path[1] # P_Local
    \/ ~config.host
    \/ ~config.username
    \/ ~config.password

C9_NoContactWithoutPreconditions ==
    \A p \in Procs :
        (SyncSlot(p) /\ PreconditionsFail(p))
        => /\ oplog[p] = <<>>
           /\ session[p] = "none"
           /\ pc[p] = "returned" => ret[p].kind = "error"

\* a call with both roots in order and the secret missing has returned
C9_Witness ==
    \E p \in Procs :
        /\ pc[p] = "returned" /\ SyncSlot(p)
        /\ Truthy(loc[p].local_path) /\ Truthy(loc[p].remote_path)
        /\ loc[p].local_path[1] = P_Local
        /\ config.host /\ config.username /\ ~config.password
        /\ ret[p].kind = "error"

(***************************************************************************)
(* C10: in every state of the walk no file is held twice by, or by two of,  *)
(* ignored_items, uploaded_files, skipped_files and errors; and in a result *)
(* returned without a top-level error every file found at a visited level   *)
(* is held exactly once.                                                    *)
(***************************************************************************)
Accounted(r) ==
    r.ignored_items \o r.uploaded_files \o r.skipped_files \o ErrorPaths(r.errors)

C10_Accounting ==
    \A p \in Procs : SyncSlot(p) =>
        /\ \A f \in LocalFiles : Count(f, Accounted(results[p])) <= 1
        /\ SyncDone(p) =>
              \A r \in WalkedRoots(p) : \A f \in FilesAt(r) :
                  Count(f, Accounted(ret[p].results)) = 1

\* a returned result that holds a failed file, two skipped files and no
\* ignored one
C10_Witness ==
    \E p \in Procs :
        /\ SyncDone(p)
        /\ Len(ret[p].results.errors) = 1
        /\ Len(ret[p].results.skipped_files) = 2
        /\ WalkedRoots(p) = {<<".">>, N_t}

(***************************************************************************)
(* C11: in every sync_directory invocation, for an absolute and for a      *)
(* relative remote_dir, each put is preceded in the same invocation by a    *)
(* stat that found, or a mkdir that created, the remote directory that      *)
(* contains the put's destination.                                          *)
(***************************************************************************)
DirEstablishedBefore(p, i) ==
    \E j \in 1..(i - 1) :
        /\ \/ oplog[p][j].op = "stat" /\ oplog[p][j].res = "found"
           \/ oplog[p][j].op = "mkdir" /\ oplog[p][j].res = "ok"
        /\ Resolve(oplog[p][j].path) = Dirname(Resolve(oplog[p][i].path))

C11_PutAfterDirectory ==
    \A p \in Procs : SyncSlot(p) =>
        \A i \in 1..Len(oplog[p]) :
            oplog[p][i].op = "put" => DirEstablishedBefore(p, i)

\* the same ordering for the invocations given an absolute remote_dir
C11_AbsoluteRoot ==
    \A p \in Procs : (SyncSlot(p) /\ loc[p].remote_path = Some(R_Abs)) =>
        \A i \in 1..Len(oplog[p]) :
            oplog[p][i].op = "put" => DirEstablishedBefore(p, i)

=============================================================================
